---- MODULE Spec2Model ----
(***************************************************************************)
(* Register access protocol of the ATTiny UPS daemon                        *)
(* (daemon/attiny_i2c.py, class ATTiny): CRC-8 framing, value codec and    *)
(* the retry / read-back discipline of get_*_value and set_*_value.        *)
(*                                                                         *)
(* One caller issues one register operation at a time.  Every attempt of   *)
(* an operation is split into its three source statements: opening the bus *)
(* (smbus.SMBus), the pacing sleep, and the block transfer together with   *)
(* everything that follows it up to the next bus access or the return.     *)
(* The bus is the environment: opening may fail, a block write may fail,   *)
(* a block read may fail or deliver any frame of the requested length.     *)
(***************************************************************************)
EXTENDS Integers, Sequences, FiniteSets, TLC

\* ------------------------------------------------------------------------
\* Bounds of the model
\* ------------------------------------------------------------------------

\* largest retry count (_num_retries) a device handle is constructed with
MaxRetries == 3

\* ------------------------------------------------------------------------
\* Program constants
\* ------------------------------------------------------------------------

REG_BAT_VOLTAGE == 17
REG_TIMEOUT == 33
REG_RESTART_VOLTAGE == 49
REG_VERSION == 128
REG_UPTIME == 133
_POLYNOME == 49

\* A Python integer x is written in three limbs <<h, m, l>> with
\* x = h * 2^32 + m * 2^16 + l, 0 <= m, l < 2^16 (the model checker's own
\* integers stop at 2^31 - 1, the failure markers do not).
PyInt(n) ==
    IF n < 0 THEN <<-1, 65535 - ((-n - 1) \div 65536), 65535 - ((-n - 1) % 65536)>>
    ELSE <<0, n \div 65536, n % 65536>>

\* failure markers returned after the retry loop has run out:
\* 0xFFFF, 0xFFFFFFFF, (0xFFFF, 0xFFFF, 0xFFFF), 0xFFFFFFFFFFFF
\* variant: 0xFF as the marker of the 8-bit read
FAIL_8BIT_byte == <<0, 0, 255>>

FAIL_8BIT == <<0, 0, 65535>>
FAIL_16BIT == <<0, 65535, 65535>>
FAIL_VERSION == <<<<0, 0, 65535>>, <<0, 0, 65535>>, <<0, 0, 65535>>>>
FAIL_UPTIME == <<65535, 65535, 65535>>

\* ------------------------------------------------------------------------
\* Bit operations on non-negative Python integers
\* ------------------------------------------------------------------------

\* bit by bit
RECURSIVE XorBits(_, _)
XorBits(a, b) ==
    IF a = 0 THEN b
    ELSE IF b = 0 THEN a
    ELSE (((a % 2) + (b % 2)) % 2) + 2 * XorBits(a \div 2, b \div 2)

RECURSIVE AndBits(_, _)
AndBits(a, b) ==
    IF a = 0 \/ b = 0 THEN 0
    ELSE ((a % 2) * (b % 2)) + 2 * AndBits(a \div 2, b \div 2)

\* the same, four bits at a time
Xor4 == [a \in 0..15 |-> [b \in 0..15 |-> XorBits(a, b)]]
And4 == [a \in 0..15 |-> [b \in 0..15 |-> AndBits(a, b)]]

\* a ^ b
RECURSIVE BitXor(_, _)
BitXor(a, b) ==
    IF a = 0 THEN b
    ELSE IF b = 0 THEN a
    ELSE Xor4[a % 16][b % 16] + 16 * BitXor(a \div 16, b \div 16)

\* a & b
RECURSIVE BitAnd(_, _)
BitAnd(a, b) ==
    IF a = 0 \/ b = 0 THEN 0
    ELSE And4[a % 16][b % 16] + 16 * BitAnd(a \div 16, b \div 16)

\* ------------------------------------------------------------------------
\* Checksum (addCrc / calcCRC)
\* ------------------------------------------------------------------------

\* the body of the for loop of addCrc, from iteration `bitnumber` on; the
\* accumulator and the input are Python integers and are not masked here
RECURSIVE addCrcLoop(_, _, _)
addCrcLoop(crc, n, bitnumber) ==
    IF bitnumber = 8 THEN crc
    ELSE addCrcLoop(IF BitAnd(BitXor(n, crc), 128) # 0
                        THEN BitXor(crc * 2, _POLYNOME)
                        ELSE crc * 2,
                    n * 2,
                    bitnumber + 1)

\* variant: the accumulator returned without the final mask
addCrcBody_unmasked(crc, n) == addCrcLoop(crc, n, 0)

\* addCrc as written: the loop, then `return crc & 0xFF`
addCrcBody(crc, n) == BitAnd(addCrcLoop(crc, n, 0), 255)

\* addCrc tabulated once over byte arguments
addCrcTable == [crc \in 0..255 |-> [n \in 0..255 |-> addCrcBody(crc, n)]]

addCrc(crc, n) ==
    IF crc \in 0..255 /\ n \in 0..255 THEN addCrcTable[crc][n] ELSE addCrcBody(crc, n)

\* the for loop of calcCRC over read[0 .. len-1] (1-based here), from elem on
RECURSIVE calcCRCLoop(_, _, _, _)
calcCRCLoop(crc, read, len, elem) ==
    IF elem >= len THEN crc
    ELSE calcCRCLoop(addCrc(crc, read[elem + 1]), read, len, elem + 1)

\* variant: the register address left out of the checksum
calcCRC_noRegister(register, read, len) == calcCRCLoop(0, read, len, 0)

calcCRC(register, read, len) == calcCRCLoop(addCrc(0, register), read, len, 0)

\* variant: every received frame is accepted
ChecksumMatches_unchecked(register, read, len) == TRUE

\* the acceptance test of a received frame: read[len] == calcCRC(register, read, len)
ChecksumMatches(register, read, len) == read[len + 1] = calcCRC(register, read, len)

\* ------------------------------------------------------------------------
\* Value codec
\* ------------------------------------------------------------------------

\* value.to_bytes(2, byteorder='little', signed=True) raises OverflowError
\* outside this range
FitsSigned16(value) == value >= -32768 /\ value <= 32767

\* variant: the two bytes produced in big-endian order
to_bytes_16_bigendian(value) ==
    LET u == IF value < 0 THEN value + 65536 ELSE value
    IN  <<u \div 256, u % 256>>

to_bytes_16(value) ==
    LET u == IF value < 0 THEN value + 65536 ELSE value
    IN  <<u % 256, u \div 256>>

\* variant: the two bytes taken in big-endian order
from_bytes_16_bigendian(read) ==
    LET u == read[2] + 256 * read[1]
    IN  IF u >= 32768 THEN u - 65536 ELSE u

\* variant: the two bytes taken as an unsigned value
from_bytes_16_unsigned(read) == read[1] + 256 * read[2]

\* int.from_bytes(read[0:2], byteorder='little', signed=True)
from_bytes_16(read) ==
    LET u == read[1] + 256 * read[2]
    IN  IF u >= 32768 THEN u - 65536 ELSE u

\* int.from_bytes(read[0:3], byteorder='little', signed=False)
from_bytes_24(read) == read[1] + 256 * read[2] + 65536 * read[3]

\* ------------------------------------------------------------------------
\* The operations and their parameters
\* ------------------------------------------------------------------------

ReadOps == {"get_8bit_value", "get_16bit_value", "get_version", "get_uptime"}
WriteOps == {"set_8bit_value", "set_16bit_value"}
Ops == ReadOps \cup WriteOps

\* the read a call runs: itself, or the read-back of a write
ReadOf(o) ==
    CASE o = "set_8bit_value" -> "get_8bit_value"
      [] o = "set_16bit_value" -> "get_16bit_value"
      [] OTHER -> o

\* number of payload bytes of a read; the block read asks for one more
ReadLen(rop) ==
    CASE rop = "get_8bit_value" -> 1
      [] rop = "get_16bit_value" -> 2
      [] OTHER -> 4

\* the value a read returns from an accepted frame
Decode(rop, read) ==
    CASE rop = "get_8bit_value" -> PyInt(read[1])
      [] rop = "get_16bit_value" -> PyInt(from_bytes_16(read))
      [] rop = "get_version" -> <<PyInt(read[3]), PyInt(read[2]), PyInt(read[1])>>
      [] OTHER -> PyInt(from_bytes_24(read))

\* the value a read returns when its loop has run out
Marker(rop) ==
    CASE rop = "get_8bit_value" -> FAIL_8BIT
      [] rop = "get_16bit_value" -> FAIL_16BIT
      [] rop = "get_version" -> FAIL_VERSION
      [] OTHER -> FAIL_UPTIME

\* variant: the checksum of the 8-bit frame taken over the value alone
ArgList_valueOnly(o, register, value) ==
    IF o = "set_8bit_value"
    THEN <<value, addCrc(0, value)>>
    ELSE LET vals == to_bytes_16(value)
         IN  <<vals[1], vals[2], calcCRC(register, vals, 2)>>

\* arg_list: the frame a write sends
ArgList(o, register, value) ==
    IF o = "set_8bit_value"
    THEN <<value, addCrc(addCrc(0, register), value)>>
    ELSE LET vals == to_bytes_16(value)
         IN  <<vals[1], vals[2], calcCRC(register, vals, 2)>>

\* ------------------------------------------------------------------------
\* Inputs of the calls and answers of the bus
\* ------------------------------------------------------------------------

\* registers addressed: an 8-bit one, two 16-bit ones, version and uptime
AllRegisters ==
    {REG_BAT_VOLTAGE, REG_TIMEOUT, REG_RESTART_VOLTAGE, REG_VERSION, REG_UPTIME}

\* 8-bit write arguments: bytes, and integers that are no byte
Values8 == {30, 255, 300, 65535}
\* 8-bit write arguments used against the storing bus, which carries bytes
ByteValues8 == {0, 30, 255}
\* 16-bit write arguments: signed 16-bit values, and one that is none
Values16 == {-32768, -1, 4660, 32767, 40000}

\* payloads a block read may deliver
Payloads(len) ==
    CASE len = 1 -> {<<30>>, <<255>>}
      [] len = 2 -> {<<52, 18>>, <<255, 255>>}
      [] OTHER -> {<<3, 2, 1, 0>>, <<255, 255, 255, 255>>}

\* trailing bytes a block read may deliver: for every payload above and
\* every register read with that length the right checksum byte is among
\* them, and wrong ones
Trailers(len) ==
    CASE len = 1 -> {0, 116, 132}
      [] len = 2 -> {0, 242, 207, 139, 182}
      [] OTHER -> {0, 87, 2, 155, 206}

Frames(len) == {p \o <<t>> : p \in Payloads(len), t \in Trailers(len)}

\* results of a call
NoResult == [kind |-> "none", val |-> 0]
Returned(v) == [kind |-> "value", val |-> v]
ReturnedBool(b) == [kind |-> "bool", val |-> b]
Raised(e) == [kind |-> "raise", val |-> e]

NoRead == [how |-> "none", val |-> <<>>]
NoWrite == [op |-> "none", value |-> 0]

\* ------------------------------------------------------------------------
\* State
\* ------------------------------------------------------------------------

VARIABLES
    numRetries,    \* self._num_retries
    storing,       \* TRUE: the bus is the stub that stores the last frame written
    store,         \* storing bus: register -> frame last written
    lastWrite,     \* storing bus: register -> the call that wrote that frame
    op,            \* operation of the current call
    register,      \* its register argument
    value,         \* its value argument (writes)
    pc,            \* next statement of the current call
    wx,            \* write attempts begun (iterations of the loop of set_*)
    rx,            \* read attempts begun in the running get_* invocation
    wbus,          \* local `bus` of set_*: "none", "open", "closed"
    rbus,          \* local `bus` of get_*: "none", "open", "closed"
    read,          \* local `read` of get_*: the frame last received
    rret,          \* how the latest get_* invocation ended, and its value
    result,        \* outcome of the call as the caller sees it
    openSessions,  \* sessions the call opened and has not closed
    nOpens,        \* sessions the call opened
    nWrites,       \* block writes the call issued
    nReads,        \* block reads the call issued
    rReads,        \* block reads of the running get_* invocation
    rErr,          \* ... of these, how many raised
    rBad,          \* ... of these, how many delivered a wrong trailing byte
    rbMatch,       \* a read-back of this call decoded the written value
    arg_list,      \* local `arg_list` of set_*: the frame built before the loop
    sent,          \* the frames the call passed to write_i2c_block_data
    nSleeps,       \* calls of time.sleep the call made
    wErr,          \* block writes of the call that raised
    c2pc,          \* second caller: next statement of its get_8bit_value
    c2rx,          \* second caller: read attempts begun
    c2open,        \* second caller: sessions it opened and has not closed
    bpc,           \* function bench: "idle", "input" or "output"
    bfn,           \* function bench: the function applied
    bin,           \* function bench: its arguments
    bout           \* function bench: its result

vars == <<numRetries, storing, store, lastWrite, op, register, value, pc, wx,
          rx, wbus, rbus, read, rret, result, openSessions, nOpens, nWrites,
          nReads, rReads, rErr, rBad, rbMatch, arg_list, sent, nSleeps, wErr,
          c2pc, c2rx, c2open, bpc, bfn, bin, bout>>

\* the second caller and the function bench, at rest while one caller runs
caller2 == <<c2pc, c2rx, c2open>>
bench == <<bpc, bfn, bin, bout>>
aside == <<caller2, bench>>

\* everything the register operations own, the state of the first caller's call
protocol ==
    <<numRetries, storing, store, lastWrite, op, register, value, pc, wx, rx,
      wbus, rbus, read, rret, result, openSessions, nOpens, nWrites, nReads,
      rReads, rErr, rBad, rbMatch, arg_list, sent, nSleeps, wErr>>

config == <<numRetries, storing>>
call == <<op, register, value>>

InitCommon ==
    /\ numRetries \in 1..MaxRetries
    /\ store = [r \in AllRegisters |-> <<>>]
    /\ lastWrite = [r \in AllRegisters |-> NoWrite]
    /\ op = "none"
    /\ register = 0
    /\ value = 0
    /\ pc = "idle"
    /\ wx = 0
    /\ rx = 0
    /\ wbus = "none"
    /\ rbus = "none"
    /\ read = <<>>
    /\ rret = NoRead
    /\ result = NoResult
    /\ openSessions = 0
    /\ nOpens = 0
    /\ nWrites = 0
    /\ nReads = 0
    /\ rReads = 0
    /\ rErr = 0
    /\ rBad = 0
    /\ rbMatch = FALSE
    /\ arg_list = <<>>
    /\ sent = {}
    /\ nSleeps = 0
    /\ wErr = 0
    /\ c2pc = "idle"
    /\ c2rx = 0
    /\ c2open = 0

\* no function is being applied on its own
BenchIdle ==
    /\ bpc = "idle"
    /\ bfn = "none"
    /\ bin = <<>>
    /\ bout = <<>>

\* a bus that may fail and may deliver any frame
Init == storing = FALSE /\ InitCommon /\ BenchIdle

\* the stub bus that stores the last frame written to each register
InitStoring == storing = TRUE /\ InitCommon /\ BenchIdle

\* ------------------------------------------------------------------------
\* The bus
\* ------------------------------------------------------------------------

\* smbus.SMBus(bus_number): TRUE = opened, FALSE = raised
OpenOutcomes == IF storing THEN {TRUE} ELSE BOOLEAN

\* write_i2c_block_data: TRUE = accepted, FALSE = raised
WriteOutcomes == IF storing THEN {TRUE} ELSE BOOLEAN

\* the storing bus answers a read of `count` bytes with the frame stored at
\* the register, cut or zero-filled to `count` bytes
StoredFrame(r, count) ==
    [i \in 1..count |-> IF i <= Len(store[r]) THEN store[r][i] ELSE 0]

\* read_i2c_block_data(address, register, len + 1): <<>> = raised
ReadResponses(r, len) ==
    IF storing THEN {StoredFrame(r, len + 1)} ELSE {<<>>} \cup Frames(len)

\* ------------------------------------------------------------------------
\* Calls
\* ------------------------------------------------------------------------

\* the registers each operation is called with
RegistersOf(o) ==
    CASE o = "get_version" -> {REG_VERSION}
      [] o = "get_uptime" -> {REG_UPTIME}
      [] o = "get_16bit_value" -> {REG_BAT_VOLTAGE, REG_RESTART_VOLTAGE}
      [] o = "set_16bit_value" -> {REG_RESTART_VOLTAGE}
      [] OTHER -> {REG_TIMEOUT}

ValuesOf(o) ==
    CASE o = "set_8bit_value" -> IF storing THEN ByteValues8 ELSE Values8
      [] o = "set_16bit_value" -> Values16
      [] OTHER -> {0}

\* variant: one iteration more
ReadLoopOver_oneMore == rx = numRetries + 1

\* `for x in range(self._num_retries)` of get_* has no iteration left
ReadLoopOver == rx = numRetries

\* variant: one iteration more
WriteLoopOver_oneMore == wx = numRetries + 1

\* `for x in range(self._num_retries)` of set_* has no iteration left
WriteLoopOver == wx = numRetries

\* variant: the read-back is called whatever became of the block write
WriteAttemptOverPc_readBack == "get_open"

\* what is left of a write attempt that did not verify: the next iteration
\* of the loop of set_*, or `return False` after the last one
WriteAttemptOverPc == IF WriteLoopOver THEN "done" ELSE "set_open"
WriteAttemptOverResult == IF WriteLoopOver THEN ReturnedBool(FALSE) ELSE result

\* The caller invokes an operation.  set_16bit_value encodes its value
\* before the loop and raises OverflowError when it does not fit.
Call ==
    /\ pc \in {"idle", "done"}
    /\ \E o \in Ops :
       \E r \in RegistersOf(o) :
       \E v \in ValuesOf(o) :
          /\ op' = o
          /\ register' = r
          /\ value' = v
          /\ IF o = "set_16bit_value" /\ ~FitsSigned16(v)
             THEN /\ pc' = "done"
                  /\ result' = Raised("OverflowError")
                  /\ arg_list' = <<>>
             ELSE /\ pc' = IF o \in WriteOps THEN "set_open" ELSE "get_open"
                  /\ result' = NoResult
                  /\ arg_list' = IF o \in WriteOps THEN ArgList(o, r, v) ELSE <<>>
    /\ wx' = 0
    /\ rx' = 0
    /\ wbus' = "none"
    /\ rbus' = "none"
    /\ read' = <<>>
    /\ rret' = NoRead
    /\ openSessions' = 0
    /\ nOpens' = 0
    /\ nWrites' = 0
    /\ nReads' = 0
    /\ rReads' = 0
    /\ rErr' = 0
    /\ rBad' = 0
    /\ rbMatch' = FALSE
    /\ sent' = {}
    /\ nSleeps' = 0
    /\ wErr' = 0
    /\ UNCHANGED <<aside, config, store, lastWrite>>

\* set_*: bus = smbus.SMBus(...) at the head of an iteration, outside the try
set_open ==
    /\ pc = "set_open"
    /\ \E ok \in OpenOutcomes :
          IF ok
          THEN /\ wx' = wx + 1
               /\ wbus' = "open"
               /\ openSessions' = openSessions + 1
               /\ nOpens' = nOpens + 1
               /\ pc' = "set_sleep"
               /\ result' = result
          ELSE /\ pc' = "done"
               /\ result' = Raised("TransportError")
               /\ UNCHANGED <<wx, wbus, openSessions, nOpens>>
    /\ UNCHANGED <<aside, config, call, store, lastWrite, rx, rbus, read, rret,
                   nWrites, nReads, rReads, rErr, rBad, rbMatch, arg_list,
                   sent, nSleeps, wErr>>

\* set_*: time.sleep(self._time_const)
set_sleep ==
    /\ pc = "set_sleep"
    /\ pc' = "set_write_block"
    /\ nSleeps' = nSleeps + 1
    /\ UNCHANGED <<aside, config, call, store, lastWrite, wx, rx, wbus, rbus,
                   read, rret, result, openSessions, nOpens, nWrites, nReads,
                   rReads, rErr, rBad, rbMatch, arg_list, sent, wErr>>

\* set_*: bus.write_i2c_block_data(...); bus.close(); then the call of get_*
\* begins.  When the write raises, the except clause logs and the loop goes on.
set_write_block ==
    /\ pc = "set_write_block"
    /\ nWrites' = nWrites + 1
    /\ sent' = sent \cup {arg_list}
    /\ \E ok \in WriteOutcomes :
          IF ok
          THEN /\ store' = IF storing
                           THEN [store EXCEPT ![register] = arg_list]
                           ELSE store
               /\ lastWrite' = IF storing
                               THEN [lastWrite EXCEPT ![register] = [op |-> op, value |-> value]]
                               ELSE lastWrite
               /\ wbus' = "closed"
               /\ openSessions' = openSessions - 1
               /\ pc' = "get_open"
               /\ result' = result
               /\ wErr' = wErr
          ELSE /\ pc' = WriteAttemptOverPc
               /\ result' = WriteAttemptOverResult
               /\ wErr' = wErr + 1
               /\ UNCHANGED <<store, lastWrite, wbus, openSessions>>
    /\ rx' = 0
    /\ rbus' = "none"
    /\ read' = <<>>
    /\ rret' = NoRead
    /\ rReads' = 0
    /\ rErr' = 0
    /\ rBad' = 0
    /\ UNCHANGED <<aside, config, call, wx, nOpens, nReads, rbMatch, arg_list,
                   nSleeps>>

\* get_*: bus = smbus.SMBus(...) at the head of an iteration, outside the try.
\* Raised in a read-back, the error is caught by the except clause of set_*.
get_open ==
    /\ pc = "get_open"
    /\ \E ok \in OpenOutcomes :
          IF ok
          THEN /\ rx' = rx + 1
               /\ rbus' = "open"
               /\ openSessions' = openSessions + 1
               /\ nOpens' = nOpens + 1
               /\ pc' = "get_sleep"
               /\ result' = result
               /\ rret' = rret
          ELSE /\ rret' = [how |-> "raised", val |-> <<>>]
               /\ pc' = IF op \in ReadOps THEN "done" ELSE WriteAttemptOverPc
               /\ result' = IF op \in ReadOps THEN Raised("TransportError")
                            ELSE WriteAttemptOverResult
               /\ UNCHANGED <<rx, rbus, openSessions, nOpens>>
    /\ UNCHANGED <<aside, config, call, store, lastWrite, wx, wbus, read,
                   nWrites, nReads, rReads, rErr, rBad, rbMatch, arg_list,
                   sent, nSleeps, wErr>>

\* variant: the block read follows the opening of the session at once
get_sleep_noDelay ==
    /\ pc = "get_sleep"
    /\ pc' = "get_read_block"
    /\ UNCHANGED <<aside, config, call, store, lastWrite, wx, rx, wbus, rbus,
                   read, rret, result, openSessions, nOpens, nWrites, nReads,
                   rReads, rErr, rBad, rbMatch, arg_list, sent, wErr, nSleeps>>

\* get_*: time.sleep(self._time_const)
get_sleep ==
    /\ pc = "get_sleep"
    /\ pc' = "get_read_block"
    /\ nSleeps' = nSleeps + 1
    /\ UNCHANGED <<aside, config, call, store, lastWrite, wx, rx, wbus, rbus,
                   read, rret, result, openSessions, nOpens, nWrites, nReads,
                   rReads, rErr, rBad, rbMatch, arg_list, sent, wErr>>

\* get_*: read = bus.read_i2c_block_data(...); bus.close(); the checksum
\* test; return of the value, next iteration, or return of the marker; and,
\* in a read-back, the comparison `get_*(register) == value` of set_*.
get_read_block ==
    /\ pc = "get_read_block"
    /\ \E resp \in ReadResponses(register, ReadLen(ReadOf(op))) :
          LET rop == ReadOf(op)
              len == ReadLen(rop)
              raised == resp = <<>>
              accepted == ~raised /\ ChecksumMatches(register, resp, len)
              returns == accepted \/ ReadLoopOver
              ret == IF accepted THEN [how |-> "valid", val |-> Decode(rop, resp)]
                     ELSE IF ReadLoopOver
                          THEN [how |-> "exhausted", val |-> Marker(rop)]
                          ELSE rret
              verified == returns /\ op \in WriteOps /\ ret.val = PyInt(value)
          IN  /\ read' = IF raised THEN read ELSE resp
              /\ rbus' = IF raised THEN rbus ELSE "closed"
              /\ openSessions' = IF raised THEN openSessions ELSE openSessions - 1
              /\ rErr' = IF raised THEN rErr + 1 ELSE rErr
              /\ rBad' = IF ~raised /\ resp[len + 1] # calcCRC(register, resp, len)
                         THEN rBad + 1 ELSE rBad
              /\ rret' = ret
              /\ rbMatch' = (rbMatch \/ (accepted /\ op \in WriteOps
                                         /\ Decode(rop, resp) = PyInt(value)))
              /\ pc' = IF ~returns THEN "get_open"
                       ELSE IF op \in ReadOps \/ verified THEN "done"
                       ELSE WriteAttemptOverPc
              /\ result' = IF ~returns THEN result
                           ELSE IF op \in ReadOps THEN Returned(ret.val)
                           ELSE IF verified THEN ReturnedBool(TRUE)
                           ELSE WriteAttemptOverResult
    /\ nReads' = nReads + 1
    /\ rReads' = rReads + 1
    /\ UNCHANGED <<aside, config, call, store, lastWrite, wx, rx, wbus, nOpens,
                   nWrites, arg_list, sent, nSleeps, wErr>>

Next ==
    \/ Call
    \/ set_open
    \/ set_sleep
    \/ set_write_block
    \/ get_open
    \/ get_sleep
    \/ get_read_block

Spec == Init /\ [][Next]_vars

SpecStoring == InitStoring /\ [][Next]_vars

\* ------------------------------------------------------------------------
\* A second caller on the same handle: it runs get_8bit_value(REG_TIMEOUT)
\* statement by statement, interleaved with the statements of the first
\* caller.  The methods take no lock, so every interleaving is a behaviour.
\* ------------------------------------------------------------------------

\* the second caller invokes get_8bit_value
c2_call ==
    /\ c2pc \in {"idle", "done"}
    /\ c2pc' = "get_open"
    /\ c2rx' = 0
    /\ c2open' = 0
    /\ UNCHANGED <<protocol, bench>>

\* bus = smbus.SMBus(self._bus_number)
c2_open ==
    /\ c2pc = "get_open"
    /\ \E ok \in OpenOutcomes :
          IF ok
          THEN /\ c2rx' = c2rx + 1
               /\ c2open' = c2open + 1
               /\ c2pc' = "get_sleep"
          ELSE /\ c2pc' = "done"
               /\ UNCHANGED <<c2rx, c2open>>
    /\ UNCHANGED <<protocol, bench>>

\* time.sleep(self._time_const)
c2_sleep ==
    /\ c2pc = "get_sleep"
    /\ c2pc' = "get_read_block"
    /\ UNCHANGED <<protocol, bench, c2rx, c2open>>

\* read = bus.read_i2c_block_data(...); bus.close(); the checksum test
c2_read_block ==
    /\ c2pc = "get_read_block"
    /\ \E resp \in ReadResponses(REG_TIMEOUT, 1) :
          LET raised == resp = <<>>
              accepted == ~raised /\ ChecksumMatches(REG_TIMEOUT, resp, 1)
          IN  /\ c2open' = IF raised THEN c2open ELSE c2open - 1
              /\ c2pc' = IF accepted \/ c2rx = numRetries THEN "done" ELSE "get_open"
    /\ UNCHANGED <<protocol, bench, c2rx>>

NextTwoCallers ==
    \/ Next
    \/ c2_call
    \/ c2_open
    \/ c2_sleep
    \/ c2_read_block

\* two callers on the storing bus, which never fails
SpecTwoCallers == InitStoring /\ [][NextTwoCallers]_vars

\* ------------------------------------------------------------------------
\* The value codec on its own: a value is encoded as set_* encodes it into
\* the value part of arg_list, and that list is decoded as the get_* of the
\* same width decodes the list it has read
\* ------------------------------------------------------------------------

\* the values offered to the codec: every signed and every unsigned value of
\* the width
CodecValues(o) ==
    IF o = "set_8bit_value" THEN -128 .. 255 ELSE -32768 .. 65535

\* the value part of arg_list: `value` itself in set_8bit_value,
\* value.to_bytes(2, byteorder='little', signed=True) in set_16bit_value
EncodePayload(o, v) ==
    IF o = "set_8bit_value" THEN <<v>> ELSE to_bytes_16(v)

\* a handle at rest and one value of one width handed to the codec
InitCodec ==
    /\ storing = FALSE
    /\ InitCommon
    /\ numRetries = MaxRetries
    /\ bpc = "input"
    /\ bfn \in WriteOps
    /\ bin \in CodecValues(bfn)
    /\ bout = <<>>

codec_encode ==
    /\ bpc = "input"
    /\ bfn \in WriteOps
    /\ bout' = IF bfn = "set_16bit_value" /\ ~FitsSigned16(bin)
               THEN Raised("OverflowError")
               ELSE [kind |-> "payload", val |-> EncodePayload(bfn, bin)]
    /\ bpc' = "encoded"
    /\ UNCHANGED <<protocol, caller2, bfn, bin>>

codec_decode ==
    /\ bpc = "encoded"
    /\ bfn \in WriteOps
    /\ bout' = IF bout.kind = "payload"
               THEN Returned(Decode(ReadOf(bfn), bout.val))
               ELSE bout
    /\ bpc' = "output"
    /\ UNCHANGED <<protocol, caller2, bfn, bin>>

NextCodec ==
    \/ codec_encode
    \/ codec_decode

SpecCodec == InitCodec /\ [][NextCodec]_vars

\* ------------------------------------------------------------------------
\* Properties
\* ------------------------------------------------------------------------

\* the value the bytes of a frame stand for, per operation, as the register
\* protocol defines it (little-endian; 16-bit signed; version = patch, minor,
\* major on the wire; uptime = 24-bit unsigned)
WireValue(rop, frame) ==
    CASE rop = "get_8bit_value" -> <<0, 0, frame[1]>>
      [] rop = "get_16bit_value" ->
            IF frame[2] >= 128
            THEN <<-1, 65535, frame[1] + 256 * frame[2]>>
            ELSE <<0, 0, frame[1] + 256 * frame[2]>>
      [] rop = "get_version" -> <<<<0, 0, frame[3]>>, <<0, 0, frame[2]>>, <<0, 0, frame[1]>>>>
      [] OTHER -> <<0, frame[3], frame[1] + 256 * frame[2]>>

\* the trailing byte of a frame is the checksum of register and payload
TrailerRight(r, frame) ==
    /\ Len(frame) >= 2
    /\ frame[Len(frame)] = calcCRC(r, frame, Len(frame) - 1)

\* block reads of the running read that delivered a frame with the right
\* trailing byte
rGood == rReads - rErr - rBad

\* the values a write of the given width can encode
Representable(o, v) ==
    IF o = "set_8bit_value" THEN v >= -128 /\ v <= 255
    ELSE v >= -32768 /\ v <= 32767

\* C1: a read (top-level or read-back) returns a value from a frame only if
\* the last byte of the frame received in that attempt is the checksum over
\* register and payload, and the value is the decoding of that payload; a
\* call that returns anything but its failure marker returned such a value.
ReadReturnsOnlyCheckedFrames ==
    /\ rret.how = "valid" =>
          /\ Len(read) = ReadLen(ReadOf(op)) + 1
          /\ TrailerRight(register, read)
          /\ rret.val = WireValue(ReadOf(op), read)
    /\ (pc = "done" /\ op \in ReadOps /\ result.kind = "value") =>
          /\ rret.how \in {"valid", "exhausted"}
          /\ result.val = rret.val
          /\ (result.val # Marker(op) => rret.how = "valid")

\* a read returned a value after earlier attempts were rejected or raised
CheckedFrameReturned ==
    /\ pc = "done"
    /\ op = "get_16bit_value"
    /\ rret.how = "valid"
    /\ rBad >= 1
    /\ rErr >= 1
    /\ result.kind = "value"
    /\ result.val = WireValue("get_16bit_value", read)

\* C2: no call ends with a transport error reaching the caller: a finished
\* call has returned a value (reads) or a boolean (writes), unless the value
\* of a write could not be encoded.
TransportErrorsAbsorbed ==
    pc = "done" =>
       \/ result.kind \in {"value", "bool"}
       \/ (result.kind = "raise" /\ result.val = "OverflowError")

\* C3: a write whose value is outside the range of its width opens no
\* session, sends no frame, and ends at once with an encoding error.
OutOfRangeWriteFailsFast ==
    (op \in WriteOps /\ ~Representable(op, value)) =>
       /\ nOpens = 0
       /\ nWrites = 0
       /\ pc = "done"
       /\ result.kind = "raise"
       /\ result.val = "OverflowError"

\* C4: at the end of every attempt and after the call has returned, every
\* session the call opened has been closed.
SessionsClosedOnEveryExit ==
    pc \in {"done", "set_open", "get_open"} => openSessions = 0

\* C5: a read call whose block reads all delivered a frame with a wrong
\* trailing byte (no open failed, no read raised) has issued exactly
\* numRetries block reads and returned its failure marker; a read call never
\* issues more than numRetries block reads, and returns the marker only
\* after the last of them.
ExhaustionAfterExactlyMaxRetries ==
    op \in ReadOps =>
       /\ rReads <= numRetries
       /\ (pc = "done" /\ result.kind = "value" /\ rBad = rReads) =>
             /\ rReads = numRetries
             /\ result.val = Marker(op)
       /\ (pc = "done" /\ result.kind = "value" /\ result.val = Marker(op)) =>
             rReads = numRetries

\* every attempt of an 8-bit read got a frame with a wrong trailing byte
AllChecksumsWrong ==
    /\ pc = "done"
    /\ op = "get_8bit_value"
    /\ numRetries = MaxRetries
    /\ rBad = rReads
    /\ rReads = numRetries
    /\ result.kind = "value"
    /\ result.val = FAIL_8BIT

\* C6: once a block read of a read call has delivered a frame with the right
\* checksum, the call is over: it has issued one block read more than the
\* attempts that failed before (raised or wrong checksum), none after, and
\* has returned the decoding of that frame; payload [0x34, 0x12] at register
\* 0x11 gives 4660.
RecoveryAfterFailedAttempts ==
    (op \in ReadOps /\ rGood >= 1) =>
       /\ pc = "done"
       /\ rGood = 1
       /\ rx = rReads
       /\ rReads = rErr + rBad + 1
       /\ TrailerRight(register, read)
       /\ result.kind = "value"
       /\ result.val = WireValue(op, read)
       /\ (op = "get_16bit_value" /\ read[1] = 52 /\ read[2] = 18) =>
             result.val = <<0, 0, 4660>>

\* the battery voltage is read as 4660 in the last attempt, after one attempt
\* that raised and one whose checksum was wrong
RecoveredBatteryVoltage ==
    /\ pc = "done"
    /\ op = "get_16bit_value"
    /\ register = REG_BAT_VOLTAGE
    /\ numRetries = MaxRetries
    /\ rErr >= 1
    /\ rBad >= 1
    /\ rx = numRetries
    /\ read = <<52, 18, 242>>
    /\ result.kind = "value"
    /\ result.val = <<0, 0, 4660>>

\* C7: on the storing bus, a 16-bit read of a register whose stored frame
\* was written by set_16bit_value(register, v) returns v.
WriteThenReadBack16 ==
    (pc = "done" /\ op = "get_16bit_value"
       /\ lastWrite[register].op = "set_16bit_value") =>
       /\ result.kind = "value"
       /\ result.val = PyInt(lastWrite[register].value)

\* a negative value written before is read back
NegativeValueReadBack ==
    /\ storing
    /\ pc = "done"
    /\ op = "get_16bit_value"
    /\ lastWrite[register].op = "set_16bit_value"
    /\ lastWrite[register].value = -32768
    /\ result.kind = "value"
    /\ result.val = <<-1, 65535, 32768>>

\* C8: on the storing bus, set_8bit_value of a byte value returns True in
\* its first attempt, with one block write and one block read.
ByteWriteSucceedsFirstAttempt ==
    (pc = "done" /\ op = "set_8bit_value" /\ value \in 0..255) =>
       /\ result.kind = "bool"
       /\ result.val = TRUE
       /\ wx = 1
       /\ nWrites = 1
       /\ nReads = 1

\* the timeout register is set to 30
TimeoutWritten ==
    /\ storing
    /\ pc = "done"
    /\ op = "set_8bit_value"
    /\ register = REG_TIMEOUT
    /\ value = 30
    /\ result.kind = "bool"
    /\ result.val = TRUE
    /\ nWrites = 1
    /\ nReads = 1

\* C9: a write call that has returned without any of its read-backs having
\* decoded the written value has returned False, after exactly numRetries
\* write attempts with one block write each.
UnverifiedWriteReturnsFalse ==
    (pc = "done" /\ op \in WriteOps /\ result.kind = "bool" /\ ~rbMatch) =>
       /\ result.val = FALSE
       /\ wx = numRetries
       /\ nWrites = numRetries

\* C10: a read call returns its failure marker exactly when its attempts ran
\* out; a value decoded from an accepted frame is never the marker.
MarkerNeverDecoded ==
    /\ (rret.how = "valid" => rret.val # Marker(ReadOf(op)))
    /\ (pc = "done" /\ op \in ReadOps /\ result.kind = "value") =>
          (result.val = Marker(op) <=> rret.how = "exhausted")

\* an accepted frame of all-ones payload bytes is returned as 255
AllOnesPayloadReturned ==
    /\ pc = "done"
    /\ op = "get_8bit_value"
    /\ rret.how = "valid"
    /\ read[1] = 255
    /\ result.kind = "value"
    /\ result.val = <<0, 0, 255>>

\* ------------------------------------------------------------------------
\* The checksum on its own: addCrc and calcCRC applied to drawn arguments
\* ------------------------------------------------------------------------

\* register addresses handed to calcCRC: the ones the calls use and the two
\* extremes of a byte
CrcRegisters == AllRegisters \cup {0, 255}

\* bytes the drawn sequences are made of
CrcBytes == {0, 1, 18, 52, 128, 255}

\* longest sequence handed to calcCRC (the longest frame read has 5 bytes)
MaxCrcLen == 4

\* sequences of exactly k bytes
CrcSeqs(k) == [1 .. k -> CrcBytes]

\* the arguments drawn for a function
CrcInputs(f) ==
    CASE f = "addCrc" -> (0 .. 255) \X (0 .. 255)
      [] f = "calcCRC" ->
            UNION {CrcRegisters \X CrcSeqs(k) \X (0 .. k) : k \in 1 .. MaxCrcLen}
      [] OTHER ->
            (CrcRegisters \X [1 .. 1 -> 0 .. 255] \X {1})
               \cup (CrcRegisters \X CrcSeqs(2) \X {2})

InitChecksum ==
    /\ storing = FALSE
    /\ InitCommon
    /\ numRetries = MaxRetries
    /\ bpc = "input"
    /\ bfn \in {"addCrc", "calcCRC", "flips"}
    /\ bin \in CrcInputs(bfn)
    /\ bout = <<>>

\* crc = self.addCrc(crc, n)
apply_addCrc ==
    /\ bpc = "input"
    /\ bfn = "addCrc"
    /\ bout' = addCrc(bin[1], bin[2])
    /\ bpc' = "output"
    /\ UNCHANGED <<protocol, caller2, bfn, bin>>

\* crc = self.calcCRC(register, read, len)
apply_calcCRC ==
    /\ bpc = "input"
    /\ bfn = "calcCRC"
    /\ bout' = calcCRC(bin[1], bin[2], bin[3])
    /\ bpc' = "output"
    /\ UNCHANGED <<protocol, caller2, bfn, bin>>

\* register and payload as one sequence of bytes
Message(reg, payload) == <<reg>> \o payload

\* the message with bit k (0 = least significant) of byte i inverted
FlipBit(msg, i, k) == [msg EXCEPT ![i] = BitXor(msg[i], 2 ^ k)]

\* calcCRC of a message: its first byte is the register, the rest the payload
MessageCRC(msg) == calcCRC(msg[1], Tail(msg), Len(msg) - 1)

\* calcCRC of the drawn register and payload and of each of their
\* single-bit variants
apply_flips ==
    /\ bpc = "input"
    /\ bfn = "flips"
    /\ LET msg == Message(bin[1], bin[2])
       IN  bout' = [base |-> MessageCRC(msg),
                    variants |-> [i \in 1 .. Len(msg) |->
                                    [k \in 0 .. 7 |-> MessageCRC(FlipBit(msg, i, k))]]]
    /\ bpc' = "output"
    /\ UNCHANGED <<protocol, caller2, bfn, bin>>

NextChecksum ==
    \/ apply_addCrc
    \/ apply_calcCRC
    \/ apply_flips

SpecChecksum == InitChecksum /\ [][NextChecksum]_vars

\* CRC-8, polynomial x^8 + x^5 + x^4 + 1, one message bit at a time, most
\* significant bit first, the accumulator kept within 8 bits after every bit
RECURSIVE RefCrcBits(_, _, _)
RefCrcBits(acc, data, bit) ==
    IF bit < 0 THEN acc
    ELSE LET top == acc \div 128
             inb == (data \div (2 ^ bit)) % 2
             shifted == (acc * 2) % 256
         IN  RefCrcBits(IF top # inb
                        THEN shifted + 1
                             + (IF (shifted \div 16) % 2 = 0 THEN 16 ELSE -16)
                             + (IF (shifted \div 32) % 2 = 0 THEN 32 ELSE -32)
                        ELSE shifted,
                        data, bit - 1)

\* the reference folded over a sequence of bytes, from accumulator acc
RECURSIVE RefCrcFold(_, _)
RefCrcFold(acc, bytes) ==
    IF bytes = <<>> THEN acc
    ELSE RefCrcFold(RefCrcBits(acc, Head(bytes), 7), Tail(bytes))

\* C12: for every seed byte and data byte addCrc(seed, data) is the
\* bit-serial CRC-8 step (polynomial 0x31, MSB first, not reflected) with the
\* accumulator masked to 8 bits after every bit; calcCRC(register, bytes, n)
\* is that step folded over the register and the first n bytes from
\* accumulator 0, with no final XOR; both results lie in 0..255.
ChecksumIsCrc8Poly31 ==
    bpc = "output" =>
       /\ bfn = "addCrc" =>
             /\ bout = RefCrcBits(bin[1], bin[2], 7)
             /\ bout \in 0 .. 255
       /\ bfn = "calcCRC" =>
             /\ bout = RefCrcFold(0, <<bin[1]>> \o SubSeq(bin[2], 1, bin[3]))
             /\ bout \in 0 .. 255

AddCrcStepApplied ==
    /\ bpc = "output"
    /\ bfn = "addCrc"
    /\ bin = <<114, 52>>
    /\ bout = 155

\* C13: for every register address and payload of 1 or 2 bytes, inverting
\* any single bit of address or payload changes calcCRC, and the checksums
\* of the original and of all its single-bit variants are pairwise distinct.
SingleBitFlipsDetected ==
    (bpc = "output" /\ bfn = "flips") =>
       LET n == Len(bin[2]) + 1
           pos == (1 .. n) \X (0 .. 7)
       IN  /\ \A p \in pos : bout.variants[p[1]][p[2]] # bout.base
           /\ \A p, q \in pos :
                 p # q => bout.variants[p[1]][p[2]] # bout.variants[q[1]][q[2]]

TwoBytePayloadFlipped ==
    /\ bpc = "output"
    /\ bfn = "flips"
    /\ bin = <<REG_RESTART_VOLTAGE, <<52, 18>>, 2>>
    /\ bout.base = 139
    /\ bout.variants[1][0] # 139

\* C14 as stated: with two callers on one handle and no lock of their own,
\* the engine serializes the bus: at most one session is live, and the two
\* callers are never both between opening a session and its block transfer.
EngineSerializesCallers ==
    /\ openSessions + c2open <= 1
    /\ ~(pc \in {"set_write_block", "get_read_block"} /\ c2pc = "get_read_block")

\* C15 as stated: a write returns True only after an attempt whose block
\* write completed and whose read-back returned a checksum-valid frame that
\* decodes to the requested value; never when the read-back ended with its
\* failure marker.
TrueOnlyAfterVerifiedReadBack ==
    (pc = "done" /\ op \in WriteOps /\ result.kind = "bool" /\ result.val = TRUE) =>
       /\ wbus = "closed"
       /\ rret.how = "valid"
       /\ TrailerRight(register, read)
       /\ WireValue(ReadOf(op), read) = PyInt(value)

\* C16 as stated: a read call performs at most max_retries bus exchanges
\* and a write call at most 2 * max_retries, block writes and block reads of
\* the read-backs together.
WriteExchangesAtMostTwiceRetries ==
    /\ op \in ReadOps => nReads + nWrites <= numRetries
    /\ op \in WriteOps => nReads + nWrites <= 2 * numRetries

\* C16: a read call performs at most max_retries bus exchanges; a write
\* call performs at most max_retries block writes and, for each block write
\* that was accepted, at most max_retries block reads of its read-back:
\* at most max_retries * (1 + max_retries) exchanges in all.
ExchangesBoundedByNestedRetries ==
    /\ op \in ReadOps => (nWrites = 0 /\ nReads <= numRetries)
    /\ op \in WriteOps =>
          /\ nWrites <= numRetries
          /\ nReads <= (nWrites - wErr) * numRetries
          /\ nReads + nWrites <= numRetries * (1 + numRetries)

EveryReadBackExhausted ==
    /\ pc = "done"
    /\ op = "set_16bit_value"
    /\ numRetries = MaxRetries
    /\ nWrites = numRetries
    /\ nReads = numRetries * numRetries

\* C17 as stated: while one caller's call runs at most one bus session is
\* open at any moment, and every session opened serves exactly one block
\* transfer.
OneSessionAtATime ==
    /\ openSessions <= 1
    /\ nOpens - (nReads + nWrites) \in {0, 1}

\* C18: every bus exchange, in first attempts, retries and read-backs
\* alike, is preceded by the delay of its own attempt: when a block transfer
\* is made, the call has slept once for every session it opened, and the
\* session of this attempt is the only one not yet used for a transfer.
DelayBeforeEveryExchange ==
    [][(nReads' = nReads + 1 \/ nWrites' = nWrites + 1) =>
          /\ pc \in {"set_write_block", "get_read_block"}
          /\ nSleeps = nOpens
          /\ nOpens = nReads + nWrites + 1]_vars

DelayedWriteAndReadBack ==
    /\ pc = "done"
    /\ op = "set_8bit_value"
    /\ nWrites = 2
    /\ nReads = 3
    /\ nSleeps = 5

\* C19: a write attempt whose block write raised issues no read-back: it
\* opens no session and reads nothing, and goes on to the next write attempt
\* or, after the last one, returns False; a read-back begins only from a
\* block write that completed.
FailedWriteSkipsReadBack ==
    [][/\ wErr' = wErr + 1 =>
             /\ nReads' = nReads
             /\ nOpens' = nOpens
             /\ pc' = (IF wx = numRetries THEN "done" ELSE "set_open")
             /\ pc' = "done" => (result'.kind = "bool" /\ result'.val = FALSE)
       /\ (op' \in WriteOps /\ pc' = "get_open" /\ pc # "get_read_block") =>
             /\ pc = "set_write_block"
             /\ wErr' = wErr
             /\ wbus' = "closed"]_vars

EveryBlockWriteRaised ==
    /\ pc = "done"
    /\ op \in WriteOps
    /\ numRetries = MaxRetries
    /\ wErr = numRetries
    /\ nReads = 0
    /\ result.kind = "bool"

\* C20 as stated: every frame a write call sends is the encoded value (one
\* byte for 8-bit, two bytes little-endian for 16-bit) followed by one
\* checksum byte over register and value bytes, and the same frame is sent
\* on every attempt.
EveryFrameEncodedValuePlusChecksum ==
    /\ Cardinality(sent) <= 1
    /\ \A f \in sent :
          /\ Len(f) = ReadLen(ReadOf(op)) + 1
          /\ \A i \in 1 .. Len(f) : f[i] \in 0 .. 255
          /\ IF op = "set_8bit_value"
             THEN f[1] = value
             ELSE LET u == IF value < 0 THEN value + 65536 ELSE value
                  IN  f[1] = u % 256 /\ f[2] = u \div 256
          /\ TrailerRight(register, f)

====
